---- MODULE Spec2Model ----
(***************************************************************************)
(* Dev API Vault: the two per-IP rate limiters (app/main.py,               *)
(* app/middleware.py), the API-key gate (app/security.py), the regex       *)
(* tester and the extractive summarizer (app/routers.py).                  *)
(*                                                                         *)
(* Every subsystem has its own specification over its own group of         *)
(* variables; the variables of the other groups keep their initial value.  *)
(***************************************************************************)
EXTENDS Integers, Sequences, FiniteSets, TLC

VARIABLES
    now,                 \* the wall clock read by time.time(), in seconds
    requests,            \* RateLimiterMiddleware.requests: ip -> {count, timestamp}
    resp,                \* the answer to the last request seen by a limiter
    sent_root,           \* history: requests each client has sent to "/" (capped)
    seen_429,            \* history: some request to "/" of the client was answered 429
    retry_at,            \* history: time + Retry-After of the client's last 429
    waited,              \* history: the last request came at or after retry_at
    obs_start,           \* history: start of the observed span
    obs_count,           \* history: requests of the client admitted in the span
    admitted_in_window,  \* history: requests admitted since the entry was created
    request_history,     \* RateLimitMiddleware.request_history: ip -> deque of times
    last_cleanup,        \* RateLimitMiddleware.last_cleanup
    admitted,            \* history: arrival times of the requests admitted in the
                         \* last two minutes, per ip
    rapidapi_proxy_secret, \* Settings.rapidapi_proxy_secret
    fastapi_env,         \* Settings.fastapi_env
    gate,                \* the last request to the /api/v1 router and its answer
    regex_req,           \* the request sent to /api/v1/regex-tester
    regex_out,           \* its answer
    summ_req,            \* the request sent to /api/v1/summarize
    summ_out,            \* its answer
    image_req,           \* the file sent to /api/v1/image-to-base64
    image_out,           \* its answer
    len_req,             \* a text field of a request and the length of its value
    len_out,             \* the answer to the request that carries it
    strict_host,         \* whether the installed pydantic refuses a domain name
                         \* without a top-level domain or with an empty label
    url_req,             \* the url sent to /api/v1/word-counter
    url_out,             \* its answer
    win_start,           \* history: when the client's current window began
    win_sent,            \* history: requests of the client counted in that window
    win_admitted,        \* history: those of them that were admitted
    in_flight,           \* admitted requests of the first client suspended in call_next
    sliding_retry_at,    \* history: time + Retry-After of the client's last 429 from
                         \* RateLimitMiddleware
    sliding_waited,      \* history: the last request came at or after sliding_retry_at
    plain_history,       \* request_history of the same limiter with cleanup disabled
    plain_resp,          \* the answer of that limiter to the last request
    solo_requests,       \* RateLimiterMiddleware.requests in the run in which the
                         \* first client is alone
    solo_resp,           \* the answer to the first client's last request in that run
    name_req,            \* the filename handed to sanitize_filename
    name_out             \* what it returns

installedVars == <<requests, sent_root, seen_429, retry_at, waited>>
spanVars      == <<obs_start, obs_count, admitted_in_window>>
slidingVars   == <<request_history, last_cleanup, admitted>>
authVars      == <<rapidapi_proxy_secret, fastapi_env, gate>>
regexVars     == <<regex_req, regex_out>>
summVars      == <<summ_req, summ_out>>
imageVars     == <<image_req, image_out>>
lengthVars    == <<len_req, len_out>>
urlVars       == <<strict_host, url_req, url_out>>
nameVars      == <<name_req, name_out>>
handlerVars   == <<imageVars, lengthVars, urlVars, nameVars>>
pairVars      == <<win_start, win_sent, win_admitted>>
overlapVars   == <<in_flight>>
slidingRetryVars == <<sliding_retry_at, sliding_waited>>
plainVars     == <<plain_history, plain_resp>>
soloVars      == <<solo_requests, solo_resp>>
watchVars     == <<overlapVars, slidingRetryVars, plainVars, soloVars>>
apiVars       == <<authVars, regexVars, summVars, handlerVars>>
limiterVars   == <<now, resp, installedVars, spanVars, slidingVars, pairVars, watchVars>>
vars == <<limiterVars, apiVars>>

(***************************************************************************)
(* Bounds of the model.                                                    *)
(***************************************************************************)
MaxWindows == 1      \* the clock runs over MaxWindows + 1 windows of a limiter
MaxOver    == 2      \* requests counted beyond the limit inside one window
MaxTextLen == 2      \* characters of a short text sent to the regex tester
MaxExtra   == 2      \* matches beyond the limit of the regex tester
MaxSentences == 3    \* sentences of a text sent to the summarizer
MaxCount   == 4      \* largest sentence_count asked of the summarizer
MaxNeighbour == 1    \* requests per window of the second client of the installed limiter
RankLen    == 3      \* sentences of a text the summarizer ranks
MaxNameLen == 3      \* characters of a short file name
MaxInFlight == 2     \* requests of one client suspended in call_next at the same time

\* seconds after a window boundary at which the clock is read
Offsets == {0, 1}

Clients == {"10.0.0.1"}

\* the client IPs _get_client_ip tells apart
SlidingClients == {"10.0.0.1", "10.0.0.2"}

\* request.url.path values: the root, an exempt path, an API endpoint
Paths == {"/", "/health", "/api/v1/summarize"}

NoTime == 0 - 1

(***************************************************************************)
(* RateLimiterMiddleware, the limiter app/main.py installs.                *)
(***************************************************************************)
limit  == 100
window == 3600

\* the for loop run by test_rate_limiting
Burst == 15

\* InstalledExempt with the health check alone
InstalledExemptHealthOnly == {"/health"}

\* "Skip rate limiting for health checks and docs"
InstalledExempt == {"/health", "/docs", "/redoc", "/openapi.json"}

\* instants the clock can show: around every window boundary
TimePoints == {w * window + j : w \in 0..MaxWindows, j \in Offsets}

\* CleanUp with ">=" for ">": an entry is deleted at the end of its window
CleanUpAtWindow(reqs, current_time) ==
    LET keep == {ip \in DOMAIN reqs : ~(current_time - reqs[ip].timestamp >= window)}
    IN  [ip \in keep |-> reqs[ip]]

\* "Clean up old entries": every entry older than the window is deleted
CleanUp(reqs, current_time) ==
    LET keep == {ip \in DOMAIN reqs : ~(current_time - reqs[ip].timestamp > window)}
    IN  [ip \in keep |-> reqs[ip]]

\* CountRequest restarting the window at every request
CountRequestRefreshing(reqs, client_ip, current_time) ==
    IF client_ip \notin DOMAIN reqs
    THEN [ip \in DOMAIN reqs \cup {client_ip} |->
            IF ip = client_ip THEN [count |-> 1, timestamp |-> current_time]
                              ELSE reqs[ip]]
    ELSE [reqs EXCEPT ![client_ip] = [count |-> @.count + 1, timestamp |-> current_time]]

\* "Initialize or update request count"
CountRequest(reqs, client_ip, current_time) ==
    IF client_ip \notin DOMAIN reqs
    THEN [ip \in DOMAIN reqs \cup {client_ip} |->
            IF ip = client_ip THEN [count |-> 1, timestamp |-> current_time]
                              ELSE reqs[ip]]
    ELSE [reqs EXCEPT ![client_ip].count = @ + 1]

\* OverLimit with the comparison moved by one: request limit + 1 passes
OverLimitOffByOne(entry) == entry.count > limit + 1

\* "Check rate limit"
OverLimit(entry) == entry.count > limit

\* RetryAfter as the time gone by in the window, not the time left
RetryAfterElapsed(entry, current_time) == current_time - entry.timestamp

\* retry_after handed to RateLimitExceeded
RetryAfter(entry, current_time) == window - (current_time - entry.timestamp)

\* HTTPException(429, headers = {"Retry-After": str(retry_after)})
RateLimitExceeded(client_ip, path, retry_after) ==
    [client |-> client_ip, path |-> path, outcome |-> "rejected", status |-> 429,
     headers |-> {"Retry-After"}, retry_after |-> retry_after,
     rl_limit |-> 0, remaining |-> 0, reset |-> 0]

\* a request the limiter does not look at
PassedThrough(client_ip, path) ==
    [client |-> client_ip, path |-> path, outcome |-> "exempt", status |-> 200,
     headers |-> {}, retry_after |-> 0, rl_limit |-> 0, remaining |-> 0, reset |-> 0]

\* the response of call_next with the three X-RateLimit headers added
WithHeaders(client_ip, path, lim, remaining, reset) ==
    [client |-> client_ip, path |-> path, outcome |-> "admitted", status |-> 200,
     headers |-> {"X-RateLimit-Limit", "X-RateLimit-Remaining", "X-RateLimit-Reset"},
     retry_after |-> 0, rl_limit |-> lim, remaining |-> remaining, reset |-> reset]

NoResponse ==
    [client |-> "", path |-> "", outcome |-> "none", status |-> 0,
     headers |-> {}, retry_after |-> 0, rl_limit |-> 0, remaining |-> 0, reset |-> 0]

\* the table after the request has been counted
Counted(client_ip, current_time) ==
    CountRequest(CleanUp(requests, current_time), client_ip, current_time)

\* RateLimiterMiddleware.dispatch for a request of client_ip to path; call_next
\* returns before the next request arrives
InstalledAnswer(client_ip, path) ==
    IF path \in InstalledExempt
    THEN PassedThrough(client_ip, path)
    ELSE LET entry == Counted(client_ip, now)[client_ip]
         IN  IF OverLimit(entry)
             THEN RateLimitExceeded(client_ip, path, RetryAfter(entry, now))
             ELSE WithHeaders(client_ip, path, limit, limit - entry.count,
                              entry.timestamp + window)

InstalledTable(client_ip, path) ==
    IF path \in InstalledExempt THEN requests ELSE Counted(client_ip, now)

\* the clients of the installed limiter when two of them share its table: the
\* first is followed beyond the limit, the second sends MaxNeighbour requests
\* per window
PairClients == {"10.0.0.1", "10.0.0.2"}
Neighbour == "10.0.0.2"

\* the counter of a window is followed MaxOver requests beyond the limit
WithinModel(client_ip, path) ==
    \/ path \in InstalledExempt
    \/ Counted(client_ip, now)[client_ip].count <= limit + MaxOver

Dispatch(client_ip, path) ==
    /\ WithinModel(client_ip, path)
    /\ requests' = InstalledTable(client_ip, path)
    /\ resp' = InstalledAnswer(client_ip, path)

\* the history kept for the burst and the Retry-After questions
Min(a, b) == IF a < b THEN a ELSE b

BurstHistory(client_ip, path) ==
    /\ sent_root' = IF path = "/"
                    THEN [sent_root EXCEPT ![client_ip] = Min(@ + 1, Burst)]
                    ELSE sent_root
    /\ seen_429' = IF path = "/" /\ resp'.status = 429
                   THEN [seen_429 EXCEPT ![client_ip] = TRUE]
                   ELSE seen_429

RetryHistory(client_ip, path) ==
    /\ waited' = (/\ path \notin InstalledExempt
                  /\ retry_at[client_ip] # NoTime
                  /\ now >= retry_at[client_ip])
    /\ retry_at' = CASE resp'.outcome = "rejected" ->
                          [retry_at EXCEPT ![client_ip] = now + resp'.retry_after]
                    [] resp'.outcome = "admitted" ->
                          [retry_at EXCEPT ![client_ip] = NoTime]
                    [] OTHER -> retry_at

\* a request reaches the installed limiter
InstalledRequest(client_ip, path) ==
    /\ Dispatch(client_ip, path)
    /\ BurstHistory(client_ip, path)
    /\ RetryHistory(client_ip, path)
    /\ UNCHANGED <<now, spanVars, slidingVars, pairVars, watchVars, apiVars>>

\* time passes
Tick ==
    /\ \E t \in TimePoints : t > now /\ now' = t
    /\ UNCHANGED <<resp, installedVars, spanVars, slidingVars, pairVars, watchVars, apiVars>>

(***************************************************************************)
(* The API-key gate of the /api/v1 router (app/security.py).               *)
(***************************************************************************)
\* Python's None, for a setting that is not set and a header that is not sent
None == "<None>"

\* truth value of an Optional[str]
Truthy(x) == x # None /\ x # ""

\* values of RAPIDAPI_PROXY_SECRET and of the X-RapidAPI-Proxy-Secret header
Secrets == {None, "", "test_secret_key", "other_key"}

\* values of FASTAPI_ENV
Envs == {"development", "Development", "staging", "production"}

\* the routes of routers.router
Endpoints == {"/api/v1/markdown-to-html", "/api/v1/qr-code", "/api/v1/image-to-base64",
              "/api/v1/regex-tester", "/api/v1/word-counter", "/api/v1/summarize"}

\* str.lower on the strings of the model
Lower(x) ==
    CASE x = "Development" -> "development"
      [] x = "Python" -> "python"
      [] x = "IMAGE/PNG" -> "image/png"
      [] x = "Image/Jpeg" -> "image/jpeg"
      [] x = "TEXT/PLAIN" -> "text/plain"
      [] x = "L" -> "l"
      [] OTHER -> x

\* Settings.is_development
IsDevelopment == Lower(fastapi_env) = "development"

\* BadKey with "and" for "or": a missing header is not refused
KeyMismatchOnly(api_key) == Truthy(api_key) /\ api_key # rapidapi_proxy_secret

\* "Check if the header was provided and if it matches our secret"
BadKey(api_key) == ~Truthy(api_key) \/ api_key # rapidapi_proxy_secret

\* verify_rapidapi_secret without the "secret not configured" branch of 500:
\* with no secret every environment skips the check
VerifyRapidapiSecretFailOpen(api_key) ==
    IF ~Truthy(rapidapi_proxy_secret) THEN 200
    ELSE IF BadKey(api_key) THEN 403
    ELSE 200

\* verify_rapidapi_secret: 200 stands for "return True"
VerifyRapidapiSecret(api_key) ==
    IF IsDevelopment /\ ~Truthy(rapidapi_proxy_secret) THEN 200
    ELSE IF ~Truthy(rapidapi_proxy_secret) THEN 500
    ELSE IF BadKey(api_key) THEN 403
    ELSE 200

NoRegex ==
    [pattern |-> << >>, text |-> << >>, status |-> 0, detail |-> "",
     matches |-> << >>, match_count |-> 0, searched |-> FALSE]
NoGate == [endpoint |-> "", api_key |-> None, status |-> 0, handler_ran |-> FALSE]

\* a request to a route of the router: the dependency runs first and the
\* endpoint handler runs only if the dependency returns
ApiRequest(endpoint, api_key) ==
    /\ gate' = [endpoint |-> endpoint, api_key |-> api_key,
                status |-> VerifyRapidapiSecret(api_key),
                handler_ran |-> VerifyRapidapiSecret(api_key) = 200]
    /\ UNCHANGED <<limiterVars, rapidapi_proxy_secret, fastapi_env, regexVars, summVars,
                   handlerVars>>

(***************************************************************************)
(* POST /api/v1/regex-tester (app/routers.py test_regex, app/utils.py).    *)
(* A pattern and a text are sequences of characters; a match is the        *)
(* sequence of characters it covers.                                       *)
(***************************************************************************)
match_limit        == 1000
max_pattern_length == 1000
max_text_length    == 50000
max_nesting        == 10

\* the character \x00
NUL == "\\x00"

\* [\x00-\x08\x0B-\x0C\x0E-\x1F\x7F] and \s, on the characters of the model
ControlChars == {NUL}
SpaceChars   == {" ", "\t"}
Digits       == {"0", "1", "2", "3", "4", "5", "6", "7", "8", "9"}

TextChars == {"a", "b", " ", "\t", NUL}

Repeat(c, n) == [i \in 1..n |-> c]
Idx(n) == [i \in 1..n |-> i]

RECURSIVE SeqsUpTo(_, _)
SeqsUpTo(S, n) ==
    IF n = 0 THEN {<< >>}
    ELSE LET shorter == SeqsUpTo(S, n - 1)
         IN  shorter \cup {Append(q, c) : q \in shorter, c \in S}

\* the texts sent: every short text, and runs of "a" around the match limit
Texts ==
    SeqsUpTo(TextChars, MaxTextLen)
        \cup {Repeat("a", match_limit + k) : k \in (0 - 1)..MaxExtra}

Nested(n) == Repeat("(", n) \o <<"a">> \o Repeat(")", n)

\* the patterns that re.compile rejects, among those sent
InvalidPatterns == {<<"(">>, <<"[", "a">>}

\* the patterns sent
Patterns ==
    {<<"a">>, <<"b">>, <<" ">>, <<"a", "+">>,
     <<"(", "?", "=", "a", ")">>, <<"(", "?", "<", "=", "a", ")">>,
     <<"a", "{", "2", ",", "}">>, <<"a", "{", "1", "0", ",", "}">>,
     Nested(max_nesting + 1)}
        \cup InvalidPatterns

\* re.compile succeeds
Compiles(pattern) == pattern \notin InvalidPatterns

\* re.search of a literal string
Contains(pattern, sub) ==
    \E i \in 1..(Len(pattern) - Len(sub) + 1) :
        SubSeq(pattern, i, i + Len(sub) - 1) = sub

\* re.search(r'\{\d+,\}', pattern)
HasOpenRange(pattern) ==
    \E i \in 1..Len(pattern) : \E j \in (i + 2)..(Len(pattern) - 1) :
        /\ pattern[i] = "{"
        /\ \A k \in (i + 1)..(j - 1) : pattern[k] \in Digits
        /\ pattern[j] = ","
        /\ pattern[j + 1] = "}"

\* dangerous_patterns, without the open range
DangerousLiterals ==
    {<<"(", "?", "#">>, <<"(", "?", "<">>, <<"(", "?", "=">>,
     <<"*", "+">>, <<"+", "*">>, <<"*", "*">>, <<"+", "+">>}

\* nesting_level after the first k characters of the pattern
NestingLevel(pattern, k) ==
    Cardinality({i \in 1..k : pattern[i] = "("}) - Cardinality({i \in 1..k : pattern[i] = ")"})

\* validate_regex_safety
ValidateRegexSafety(pattern) ==
    /\ \A d \in DangerousLiterals : ~Contains(pattern, d)
    /\ ~HasOpenRange(pattern)
    /\ ~(Len(pattern) > 1000)
    /\ \A k \in 1..Len(pattern) :
          pattern[k] = "(" => ~(NestingLevel(pattern, k) > max_nesting)

\* re.sub(r'\s+', ' ', text)
CollapseSpaces(text) ==
    LET first(i) == text[i] \notin SpaceChars \/ i = 1 \/ text[i - 1] \notin SpaceChars
        kept == SelectSeq(Idx(Len(text)), first)
    IN  [k \in 1..Len(kept) |-> IF text[kept[k]] \in SpaceChars THEN " " ELSE text[kept[k]]]

\* str.strip of a text whose runs of white space are collapsed
Strip(text) ==
    LET lo == IF text # << >> /\ text[1] = " " THEN 2 ELSE 1
        hi == IF text # << >> /\ text[Len(text)] = " " THEN Len(text) - 1 ELSE Len(text)
    IN  SubSeq(text, lo, hi)

\* sanitize_user_input
SanitizeUserInput(text, max_length) ==
    IF text = << >> THEN << >>
    ELSE LET cut == SubSeq(text, 1, Min(Len(text), max_length))
             printable(c) == c \notin ControlChars
         IN  Strip(CollapseSpaces(SelectSeq(cut, printable)))

\* the last position of the run of c that starts at position s of text
RunEnd(text, c, s) ==
    CHOOSE e \in s..Len(text) :
        /\ e = Len(text) \/ text[e + 1] # c
        /\ \A k \in s..e : text[k] = c

\* compiled_pattern.findall(text) for the patterns that pass the checks: a
\* character c, or c+
FindAll(pattern, text) ==
    LET c == pattern[1]
        start(i) == text[i] = c /\ (i = 1 \/ text[i - 1] # c)
        starts == SelectSeq(Idx(Len(text)), start)
        isC(x) == x = c
        hits == SelectSeq(text, isC)
    IN  IF Len(pattern) = 2 /\ pattern[2] = "+"
        THEN [k \in 1..Len(starts) |->
                SubSeq(text, starts[k], RunEnd(text, c, starts[k]))]
        ELSE [k \in 1..Len(hits) |-> <<c>>]

\* Truncate with the limit moved by one
TruncateLate(matches) ==
    IF Len(matches) > match_limit + 1 THEN SubSeq(matches, 1, match_limit + 1) ELSE matches

\* "Limit number of matches to prevent memory issues"
Truncate(matches) ==
    IF Len(matches) > match_limit THEN SubSeq(matches, 1, match_limit) ELSE matches

Returned(pattern, text, matches) ==
    [pattern |-> pattern, text |-> text, status |-> 200, detail |-> "",
     matches |-> matches, match_count |-> Len(matches), searched |-> TRUE]

\* an exception that leaves the handler or its try block
Raised(pattern, text, status, detail, searched) ==
    [pattern |-> pattern, text |-> text, status |-> status, detail |-> detail,
     matches |-> << >>, match_count |-> 0, searched |-> searched]

\* validate_text_length
TextTooLong(text, max_length) == Len(text) > max_length

\* the try block of test_regex: what it returns or raises
TryTestRegex(pattern, text) ==
    IF TextTooLong(text, max_text_length)
    THEN Raised(pattern, text, 400, "Text too long. Maximum 50000 characters allowed.", FALSE)
    ELSE IF TextTooLong(pattern, max_pattern_length)
    THEN Raised(pattern, text, 400, "Text too long. Maximum 1000 characters allowed.", FALSE)
    ELSE IF ~ValidateRegexSafety(pattern)
    THEN Raised(pattern, text, 400, "Regex pattern not allowed for security reasons", FALSE)
    ELSE IF ~Compiles(pattern)
    THEN Raised(pattern, text, 0, "re.error", FALSE)
    ELSE Returned(pattern, text,
                  Truncate(FindAll(pattern, SanitizeUserInput(text, max_text_length))))

\* test_regex: "except re.error" answers 400, "except Exception" catches
\* every other exception, the HTTPException of the try block included
TestRegex(pattern, text) ==
    LET r == TryTestRegex(pattern, text)
    IN  IF r.status = 200 THEN r
        ELSE IF r.detail = "re.error"
        THEN Raised(pattern, text, 400, "Invalid regular expression", r.searched)
        ELSE Raised(pattern, text, 500, "Regex testing failed", r.searched)

\* RegexRequest: max_length of both fields and the validator of pattern
RegexRequestValid(pattern, text) ==
    /\ Len(pattern) <= max_pattern_length
    /\ Len(text) <= max_text_length
    /\ Compiles(pattern)

\* the answer to POST /api/v1/regex-tester with a valid key
RegexAnswer(pattern, text) ==
    IF RegexRequestValid(pattern, text)
    THEN TestRegex(pattern, text)
    ELSE Raised(pattern, text, 422, "validation error", FALSE)

\* the request is answered
RegexTester ==
    /\ regex_out.status = 0
    /\ regex_out' = RegexAnswer(regex_req.pattern, regex_req.text)
    /\ UNCHANGED <<limiterVars, authVars, regex_req, summVars, handlerVars>>

InitRegexIdle ==
    /\ regex_req = [pattern |-> <<"a">>, text |-> << >>]
    /\ regex_out = NoRegex

(***************************************************************************)
(* POST /api/v1/summarize (app/routers.py summarize_text).  A text is the  *)
(* sequence of its sentences as sent_tokenize returns them, a sentence the *)
(* sequence of its words as word_tokenize returns them.                    *)
(***************************************************************************)
min_text_length    == 50
max_summary_input  == 100000
min_words          == 10
max_sentence_count == 20

\* stopwords.words('english'), on the words of the model
StopWords == {"the", "is"}

\* the words for which str.isalnum is false
HyphenWords == {"well-known", "state-of-the-art"}

IsAlnum(word) == word \notin HyphenWords

\* the sentences texts are made of
SentencePool ==
    {<<"Python", "code", "python", "is", "the">>,
     <<"the", "data", "is", "the", "code">>,
     <<"is", "the", "is", "the", "is">>,
     <<"well-known", "state-of-the-art", "well-known", "well-known", "state-of-the-art">>}

SummTexts == SeqsUpTo(SentencePool, MaxSentences) \ {<< >>}

\* a sentence of five one-letter words: two of them are ten words in fewer
\* than min_text_length characters
ShortSentence == <<"a", "b", "c", "d", "e">>

\* texts around the limits of TextSummarizeRequest, the empty text included
EdgeTexts == SeqsUpTo(SentencePool \cup {ShortSentence}, 2)

\* white space sent around the text: none, or more than min_text_length
EdgeBlanks == {0, min_text_length + 10}

\* sentence_count around both ends of 1..max_sentence_count
EdgeCounts == {0, 1, max_sentence_count, max_sentence_count + 1}

RECURSIVE SumSeq(_)
SumSeq(q) == IF q = << >> THEN 0 ELSE Head(q) + SumSeq(Tail(q))

RECURSIVE Flatten(_)
Flatten(qs) == IF qs = << >> THEN << >> ELSE Head(qs) \o Flatten(Tail(qs))

\* len(text): the words of a sentence are separated by a blank, a sentence
\* ends with a full stop and is separated from the next one by a blank
CharLength(text) ==
    LET sentenceLength(sn) == SumSeq([k \in 1..Len(sn) |-> Len(sn[k])]) + Len(sn)
    IN  SumSeq([i \in 1..Len(text) |-> sentenceLength(text[i])]) + Len(text) - 1

\* len(text.split())
WordCount(text) == Len(Flatten(text))

\* len(text) of a text sent with blanks characters of white space around it
RawLength(text, blanks) == (IF text = << >> THEN 0 ELSE CharLength(text)) + blanks

\* SummarizeRequestValid without the word count of validate_text
SummarizeRequestValidAnyWords(text, blanks, sentence_count) ==
    /\ RawLength(text, blanks) >= min_text_length
    /\ RawLength(text, blanks) <= max_summary_input
    /\ text # << >>
    /\ sentence_count > 0
    /\ sentence_count <= max_sentence_count

\* TextSummarizeRequest: the Field constraints, then validate_text (the text
\* is not white space only and has min_words words)
SummarizeRequestValid(text, blanks, sentence_count) ==
    /\ RawLength(text, blanks) >= min_text_length
    /\ RawLength(text, blanks) <= max_summary_input
    /\ text # << >>
    /\ WordCount(text) >= min_words
    /\ sentence_count > 0
    /\ sentence_count <= max_sentence_count

\* word_frequencies before normalisation: the lower-cased alphanumeric words
\* outside stop_words, with the number of their occurrences
ScoredWords(text, stop_words) ==
    LET words == Flatten(text)
    IN  {w \in {Lower(words[k]) : k \in 1..Len(words)} :
            IsAlnum(w) /\ w \notin stop_words}

Frequency(text, w) ==
    LET words == Flatten(text)
    IN  Cardinality({k \in 1..Len(words) : Lower(words[k]) = w})

\* the positions of a sentence that hold a word of word_frequencies
Hits(text, stop_words, i) ==
    LET scored == ScoredWords(text, stop_words)
    IN  {k \in 1..Len(text[i]) : Lower(text[i][k]) \in scored}

\* sentence_word_count
HitCount(text, stop_words, i) == Cardinality(Hits(text, stop_words, i))

\* the sum of the frequencies of the scored words of sentence i; the score
\* is this sum divided by max_freq and by sentence_word_count
HitSum(text, stop_words, i) ==
    LET hits == Hits(text, stop_words, i)
    IN  SumSeq([k \in 1..Len(text[i]) |->
                  IF k \in hits THEN Frequency(text, Lower(text[i][k])) ELSE 0])

\* the keys of sentence_scores: the sentences with a scored word
ScoredSentences(text, stop_words) ==
    {i \in 1..Len(text) : HitCount(text, stop_words, i) > 0}

\* ScoreAbove on the sums, without the division by sentence_word_count
ScoreAboveBySum(text, stop_words, j, i) ==
    HitSum(text, stop_words, j) > HitSum(text, stop_words, i)

\* sentence_scores[j] > sentence_scores[i], the common divisor max_freq dropped
ScoreAbove(text, stop_words, j, i) ==
    HitSum(text, stop_words, j) * HitCount(text, stop_words, i)
        > HitSum(text, stop_words, i) * HitCount(text, stop_words, j)

\* j comes before i in sorted(sentence_scores, key = ..., reverse = True)
Before(text, stop_words, j, i) ==
    \/ ScoreAbove(text, stop_words, j, i)
    \/ ~ScoreAbove(text, stop_words, i, j) /\ j < i

\* NLargest that returns n + 1 sentences
NLargestOneMore(n, text, stop_words) ==
    {i \in ScoredSentences(text, stop_words) :
        Cardinality({j \in ScoredSentences(text, stop_words) :
                        Before(text, stop_words, j, i)}) <= n}

\* heapq.nlargest(n, sentence_scores, key = sentence_scores.get)
NLargest(n, text, stop_words) ==
    {i \in ScoredSentences(text, stop_words) :
        Cardinality({j \in ScoredSentences(text, stop_words) :
                        Before(text, stop_words, j, i)}) < n}

\* [sentences[i] for i in sorted(indices)]
Pick(text, indices) ==
    LET chosen(i) == i \in indices
        sorted == SelectSeq(Idx(Len(text)), chosen)
    IN  [k \in 1..Len(sorted) |-> text[sorted[k]]]

\* sep.join(parts) on sequences of tokens
RECURSIVE JoinWith(_, _)
JoinWith(sep, parts) ==
    IF parts = << >> THEN << >>
    ELSE IF Len(parts) = 1 THEN parts[1]
    ELSE parts[1] \o <<sep>> \o JoinWith(sep, Tail(parts))

\* a sentence as sent_tokenize returns it: its words, a blank between two of
\* them, and its full stop
SentenceString(sn) == JoinWith(" ", [k \in 1..Len(sn) |-> <<sn[k]>>]) \o <<".">>

\* request.text.strip()
Stripped(text) == JoinWith(" ", [i \in 1..Len(text) |-> SentenceString(text[i])])

\* '. '.join(sentences)
JoinSentences(sentences) ==
    JoinWith(". ", [i \in 1..Len(sentences) |-> SentenceString(sentences[i])])

NoSummary ==
    [status |-> 0, path |-> "", original_sentence_count |-> 0,
     summary |-> << >>, summary_sentence_count |-> 0, rendered |-> << >>]

\* the response; summary is the sequence of the sentences in it, rendered the
\* string sent as "summary"
Summary(path, original, summary, count) ==
    [status |-> 200, path |-> path, original_sentence_count |-> original,
     summary |-> summary, summary_sentence_count |-> count,
     rendered |-> IF path = "short" THEN Stripped(summary) ELSE JoinSentences(summary)]

\* summarize_text; stop_words is empty when the stopwords corpus is missing
SummarizeText(text, sentence_count, stop_words) ==
    IF Len(text) <= sentence_count
    THEN Summary("short", Len(text), text, Len(text))
    ELSE IF ScoredWords(text, stop_words) = {}
    THEN Summary("fallback", Len(text), SubSeq(text, 1, sentence_count),
                 Min(sentence_count, Len(text)))
    ELSE LET indices == NLargest(sentence_count, text, stop_words)
         IN  Summary("ranked", Len(text), Pick(text, indices), Cardinality(indices))

\* the answer to POST /api/v1/summarize with a valid key
SummarizeAnswer(req) ==
    IF SummarizeRequestValid(req.text, req.blanks, req.sentence_count)
    THEN SummarizeText(req.text, req.sentence_count,
                       IF req.stopwords THEN StopWords ELSE {})
    ELSE [NoSummary EXCEPT !.status = 422]

\* the request is answered
Summarize ==
    /\ summ_out.status = 0
    /\ summ_out' = SummarizeAnswer(summ_req)
    /\ UNCHANGED <<limiterVars, authVars, regexVars, summ_req, handlerVars>>

InitSummIdle ==
    /\ summ_req = [text |-> << >>, blanks |-> 0, sentence_count |-> 3, stopwords |-> TRUE]
    /\ summ_out = NoSummary

(***************************************************************************)
(* POST /api/v1/image-to-base64 (app/routers.py image_to_base64).  The     *)
(* value of a Content-Type header is the sequence of its pieces: a media   *)
(* type, ";", a blank, a parameter.  A file body is known by its size.     *)
(***************************************************************************)
allowed_types == {"image/png", "image/jpeg", "image/jpg", "image/gif", "image/webp"}

\* "Validate file size (10MB limit)"
max_upload_bytes == 10 * 1024 * 1024

\* the size test_large_image_upload goes one byte beyond
test_upload_bytes == 5 * 1024 * 1024

\* media types a client declares
MediaTypes ==
    allowed_types \cup {"IMAGE/PNG", "Image/Jpeg", "image/svg+xml", "image/bmp",
                        "text/plain", "TEXT/PLAIN", "application/pdf"}

\* header values: bare, with a parameter, padded, padded with a parameter,
\* blank, and starting with the separator
ContentTypes ==
    UNION {{<<t>>, <<t, ";", " ", "charset=utf-8">>, <<" ", t, " ">>,
            <<" ", t, " ", ";", "q=1">>, <<";", t>>} : t \in MediaTypes}
    \cup {<< >>, <<" ">>}

\* sizes of the file body, around both limits
UploadSizes ==
    {0, 1, test_upload_bytes, test_upload_bytes + 1, max_upload_bytes, max_upload_bytes + 1}

\* the uploads: has_type is FALSE when the part carries no Content-Type
Uploads ==
    [has_type : {TRUE}, content_type : ContentTypes, size : UploadSizes, read_fails : BOOLEAN]
    \cup [has_type : {FALSE}, content_type : {<< >>}, size : UploadSizes, read_fails : BOOLEAN]

\* content_type.split(';')[0]
BeforeSemicolon(content_type) ==
    LET hits == {i \in 1..Len(content_type) : content_type[i] = ";"}
    IN  IF hits = {} THEN content_type
        ELSE SubSeq(content_type, 1, (CHOOSE i \in hits : \A j \in hits : i <= j) - 1)

\* content_type.split(';')[0].strip().lower()
NormalizeContentType(content_type) ==
    LET stripped == Strip(BeforeSemicolon(content_type))
    IN  [i \in 1..Len(stripped) |-> Lower(stripped[i])]

\* check_content_type_safety
CheckContentTypeSafety(content_type, allowed) ==
    IF content_type = << >> THEN FALSE
    ELSE NormalizeContentType(content_type) \in {<<Lower(t)>> : t \in allowed}

\* "if not file.content_type or not check_content_type_safety(...)"
TypeRefused(file) ==
    \/ ~file.has_type
    \/ file.content_type = << >>
    \/ ~CheckContentTypeSafety(file.content_type, allowed_types)

\* len(base64.b64encode(contents))
Base64Length(n) == 4 * ((n + 2) \div 3)

NoImage ==
    [kind |-> "none", status |-> 0, detail |-> "", read |-> FALSE, encoded |-> FALSE,
     file_size |-> 0, base64_length |-> 0]

\* the body of the try block: it returns, raises an HTTPException or fails in
\* file.read()
TryImageToBase64(file) ==
    IF TypeRefused(file)
    THEN [NoImage EXCEPT !.kind = "HTTPException", !.status = 400,
                         !.detail = "File must be a supported image format"]
    ELSE IF file.read_fails
    THEN [NoImage EXCEPT !.kind = "Exception", !.read = TRUE]
    ELSE IF file.size > max_upload_bytes
    THEN [NoImage EXCEPT !.kind = "HTTPException", !.status = 400, !.read = TRUE,
                         !.detail = "File too large. Maximum 10MB allowed."]
    ELSE [NoImage EXCEPT !.kind = "return", !.status = 200, !.read = TRUE,
                         !.encoded = TRUE, !.file_size = file.size,
                         !.base64_length = Base64Length(file.size)]

\* image_to_base64 without "except HTTPException: raise": every exception of
\* the try block is answered 500
ImageToBase64Swallowed(file) ==
    LET r == TryImageToBase64(file)
    IN  IF r.kind \in {"Exception", "HTTPException"}
        THEN [r EXCEPT !.kind = "HTTPException", !.status = 500,
                       !.detail = "Image conversion failed"]
        ELSE r

\* image_to_base64: an HTTPException is raised again, any other exception is
\* answered 500
ImageToBase64(file) ==
    LET r == TryImageToBase64(file)
    IN  IF r.kind = "Exception"
        THEN [r EXCEPT !.kind = "HTTPException", !.status = 500,
                       !.detail = "Image conversion failed"]
        ELSE r

\* the upload is answered
ImageUpload ==
    /\ image_out.status = 0
    /\ image_out' = ImageToBase64(image_req)
    /\ UNCHANGED <<limiterVars, authVars, regexVars, summVars, image_req, lengthVars, urlVars,
                   nameVars>>

InitImageIdle ==
    /\ image_req = [has_type |-> TRUE, content_type |-> <<"image/png">>, size |-> 0,
                    read_fails |-> FALSE]
    /\ image_out = NoImage

(***************************************************************************)
(* The length of a text field, checked twice: by the request model         *)
(* (app/models.py, answered 422) and by validate_text_length in the        *)
(* handler (app/routers.py, HTTPException 400).  The rest of the request   *)
(* is valid.                                                               *)
(***************************************************************************)
MaxDelta == 1      \* lengths are taken this far on either side of a maximum

TextFields ==
    {"MarkdownRequest.markdown_text", "QrCodeRequest.data", "RegexRequest.text",
     "RegexRequest.pattern", "TextSummarizeRequest.text"}

\* max_length of the Field
DeclaredMax(field) ==
    CASE field = "MarkdownRequest.markdown_text" -> 10000
      [] field = "QrCodeRequest.data" -> 2000
      [] field = "RegexRequest.text" -> max_text_length
      [] field = "RegexRequest.pattern" -> max_pattern_length
      [] field = "TextSummarizeRequest.text" -> max_summary_input

\* min_length of the Field
DeclaredMin(field) ==
    CASE field = "MarkdownRequest.markdown_text" -> 1
      [] field = "TextSummarizeRequest.text" -> min_text_length
      [] OTHER -> 0

\* HandlerMax with the markdown handler checking against half its limit
HandlerMaxHalved(field) ==
    CASE field = "MarkdownRequest.markdown_text" -> 5000
      [] field = "QrCodeRequest.data" -> 2000
      [] field = "RegexRequest.text" -> 50000
      [] field = "RegexRequest.pattern" -> 1000
      [] field = "TextSummarizeRequest.text" -> 100000

\* the max_length argument of the handler's validate_text_length call
HandlerMax(field) ==
    CASE field = "MarkdownRequest.markdown_text" -> 10000
      [] field = "QrCodeRequest.data" -> 2000
      [] field = "RegexRequest.text" -> 50000
      [] field = "RegexRequest.pattern" -> 1000
      [] field = "TextSummarizeRequest.text" -> 100000

\* lengths of the value: the shortest ones and those around every maximum
FieldLengths ==
    {0, 1} \cup {DeclaredMax(f) + d : f \in TextFields, d \in (0 - MaxDelta)..MaxDelta}

\* the Field constraints of the request model
FieldValid(field, length) ==
    /\ length >= DeclaredMin(field)
    /\ length <= DeclaredMax(field)

\* validate_text_length raises
ValidateTextLength(length, max_length) == length > max_length

NoLength == [status |-> 0, handler_ran |-> FALSE, too_long |-> FALSE]

\* the answer to a request whose field has a value of this length: the four
\* handlers answer 500 to an exception of their try block
LengthAnswer(field, length) ==
    IF ~FieldValid(field, length)
    THEN [status |-> 422, handler_ran |-> FALSE, too_long |-> FALSE]
    ELSE IF ValidateTextLength(length, HandlerMax(field))
    THEN [status |-> 500, handler_ran |-> TRUE, too_long |-> TRUE]
    ELSE [status |-> 200, handler_ran |-> TRUE, too_long |-> FALSE]

\* the request is answered
LengthRequest ==
    /\ len_out.status = 0
    /\ len_out' = LengthAnswer(len_req.field, len_req.length)
    /\ UNCHANGED <<limiterVars, authVars, regexVars, summVars, imageVars, len_req, urlVars,
                   nameVars>>

InitLengthIdle ==
    /\ len_req = [field |-> "QrCodeRequest.data", length |-> 0]
    /\ len_out = NoLength

(***************************************************************************)
(* POST /api/v1/word-counter (app/routers.py count_words_in_webpage,       *)
(* safe_web_request; app/utils.py validate_url_safety).  A url is the      *)
(* scheme and the hostname urlparse finds in it, the hostname a sequence   *)
(* of characters.                                                          *)
(***************************************************************************)
Schemes == {"http", "https", "ftp", "file", ""}

\* example.com, 8.8.8.8, 172.15.0.1, 100.0.0.1, intranet
PublicHosts ==
    {<<"e", "x", "a", "m", "p", "l", "e", ".", "c", "o", "m">>,
     <<"8", ".", "8", ".", "8", ".", "8">>,
     <<"1", "7", "2", ".", "1", "5", ".", "0", ".", "1">>,
     <<"1", "0", "0", ".", "0", ".", "0", ".", "1">>,
     <<"i", "n", "t", "r", "a", "n", "e", "t">>}

\* localhost, Localhost, 127.0.0.1, 0.0.0.0, ::1, 192.168.1.1, 10.0.0.5,
\* 172.16.0.1, 172.20.0.1, 172.31.0.1, 172.2.3.4, 169.254.1.1, printer.local,
\* a.local.b.io, .example.com
GuardedHosts ==
    {<<"l", "o", "c", "a", "l", "h", "o", "s", "t">>,
     <<"L", "o", "c", "a", "l", "h", "o", "s", "t">>,
     <<"1", "2", "7", ".", "0", ".", "0", ".", "1">>,
     <<"0", ".", "0", ".", "0", ".", "0">>,
     <<":", ":", "1">>,
     <<"1", "9", "2", ".", "1", "6", "8", ".", "1", ".", "1">>,
     <<"1", "0", ".", "0", ".", "0", ".", "5">>,
     <<"1", "7", "2", ".", "1", "6", ".", "0", ".", "1">>,
     <<"1", "7", "2", ".", "2", "0", ".", "0", ".", "1">>,
     <<"1", "7", "2", ".", "3", "1", ".", "0", ".", "1">>,
     <<"1", "7", "2", ".", "2", ".", "3", ".", "4">>,
     <<"1", "6", "9", ".", "2", "5", "4", ".", "1", ".", "1">>,
     <<"p", "r", "i", "n", "t", "e", "r", ".", "l", "o", "c", "a", "l">>,
     <<"a", ".", "l", "o", "c", "a", "l", ".", "b", ".", "i", "o">>,
     <<".", "e", "x", "a", "m", "p", "l", "e", ".", "c", "o", "m">>}

\* the hostnames of the model, the missing one included
Hosts == PublicHosts \cup GuardedHosts \cup {<< >>}

\* what requests.get does when it is called
FetchOutcomes == {"ok", "timeout", "connection_error", "http_error", "too_large"}

Urls == [scheme : Schemes, host : Hosts, fetch : FetchOutcomes]

\* hostname.lower()
LowerHost(host) == [i \in 1..Len(host) |-> Lower(host[i])]

\* str.startswith, str.endswith
StartsWith(q, prefix) == Len(q) >= Len(prefix) /\ SubSeq(q, 1, Len(prefix)) = prefix
EndsWith(q, suffix) ==
    Len(q) >= Len(suffix) /\ SubSeq(q, Len(q) - Len(suffix) + 1, Len(q)) = suffix

\* 'localhost', '127.0.0.1', '0.0.0.0', '::1'
BlockedHosts ==
    {<<"l", "o", "c", "a", "l", "h", "o", "s", "t">>,
     <<"1", "2", "7", ".", "0", ".", "0", ".", "1">>,
     <<"0", ".", "0", ".", "0", ".", "0">>,
     <<":", ":", "1">>}

\* '192.168.', '10.', '172.16.', '172.17.', '172.18.', '172.19.', '172.2',
\* '172.3', '169.254.'
BlockedPrefixes ==
    {<<"1", "9", "2", ".", "1", "6", "8", ".">>,
     <<"1", "0", ".">>,
     <<"1", "7", "2", ".", "1", "6", ".">>,
     <<"1", "7", "2", ".", "1", "7", ".">>,
     <<"1", "7", "2", ".", "1", "8", ".">>,
     <<"1", "7", "2", ".", "1", "9", ".">>,
     <<"1", "7", "2", ".", "2">>,
     <<"1", "7", "2", ".", "3">>,
     <<"1", "6", "9", ".", "2", "5", "4", ".">>}

DotLocal == <<".", "l", "o", "c", "a", "l">>

\* validate_url_safety
ValidateUrlSafety(url) ==
    /\ url.scheme \in {"http", "https"}
    /\ url.host # << >>
    /\ LowerHost(url.host) \notin BlockedHosts
    /\ \A prefix \in BlockedPrefixes : ~StartsWith(LowerHost(url.host), prefix)
    /\ ~StartsWith(LowerHost(url.host), <<".">>)
    /\ ~EndsWith(LowerHost(url.host), DotLocal)
    /\ ~Contains(LowerHost(url.host), DotLocal \o <<".">>)

\* the hostname is an IP address
IsIpAddress(host) == \A i \in 1..Len(host) : host[i] \in Digits \cup {".", ":"}

\* the hostname is a domain name with a top-level domain and no empty first label
IsFullDomain(host) ==
    /\ host[1] # "."
    /\ \E i \in 2..(Len(host) - 1) : host[i] = "."

\* UrlRequest.url: HttpUrl accepts the schemes http and https and asks for a host
HttpUrlValid(url) ==
    /\ url.scheme \in {"http", "https"}
    /\ url.host # << >>
    /\ strict_host => (IsIpAddress(url.host) \/ IsFullDomain(url.host))

NoWordCount ==
    [kind |-> "none", status |-> 0, detail |-> "", handler_ran |-> FALSE, fetched |-> FALSE]

\* what the try block of safe_web_request raises or returns after requests.get
Fetched(url) ==
    CASE url.fetch = "ok" ->
           [NoWordCount EXCEPT !.kind = "return", !.status = 200, !.fetched = TRUE]
      [] url.fetch = "timeout" ->
           [NoWordCount EXCEPT !.kind = "HTTPException", !.status = 408, !.fetched = TRUE,
                               !.detail = "Request timeout while fetching the URL"]
      [] url.fetch = "connection_error" ->
           [NoWordCount EXCEPT !.kind = "HTTPException", !.status = 400, !.fetched = TRUE,
                               !.detail = "Could not connect to the provided URL"]
      [] url.fetch = "http_error" ->
           [NoWordCount EXCEPT !.kind = "HTTPException", !.status = 400, !.fetched = TRUE,
                               !.detail = "HTTP error"]
      [] url.fetch = "too_large" ->
           [NoWordCount EXCEPT !.kind = "HTTPException", !.status = 400, !.fetched = TRUE,
                               !.detail = "Content too large to process"]

\* safe_web_request with the request sent before the url is validated
SafeWebRequestFetchFirst(url) ==
    IF ~ValidateUrlSafety(url)
    THEN [NoWordCount EXCEPT !.kind = "HTTPException", !.status = 400, !.fetched = TRUE,
                             !.detail = "URL not allowed for security reasons"]
    ELSE Fetched(url)

\* safe_web_request
SafeWebRequest(url) ==
    IF ~ValidateUrlSafety(url)
    THEN [NoWordCount EXCEPT !.kind = "HTTPException", !.status = 400,
                             !.detail = "URL not allowed for security reasons"]
    ELSE Fetched(url)

\* count_words_in_webpage: the HTTPException of safe_web_request is raised
\* again, the page it returns is counted
CountWordsInWebpage(url) == [SafeWebRequest(url) EXCEPT !.handler_ran = TRUE]

\* the answer to POST /api/v1/word-counter with a valid key
WordCounterAnswer(url) ==
    IF HttpUrlValid(url)
    THEN CountWordsInWebpage(url)
    ELSE [NoWordCount EXCEPT !.kind = "validation", !.status = 422]

\* the request is answered
WordCounter ==
    /\ url_out.status = 0
    /\ url_out' = WordCounterAnswer(url_req)
    /\ UNCHANGED <<limiterVars, authVars, regexVars, summVars, imageVars, lengthVars,
                   strict_host, url_req, nameVars>>

InitUrlIdle ==
    /\ strict_host = FALSE
    /\ url_req = [scheme |-> "https", host |-> << >>, fetch |-> "ok"]
    /\ url_out = NoWordCount

NoName == [called |-> FALSE, result |-> << >>]

InitNameIdle ==
    /\ name_req = << >>
    /\ name_out = NoName

\* no request has been sent to one of these handlers
InitHandlersIdle == InitImageIdle /\ InitLengthIdle /\ InitUrlIdle /\ InitNameIdle

InitClock == now = 0 /\ resp = NoResponse

InitInstalled ==
    /\ requests = << >>
    /\ sent_root = [c \in Clients |-> 0]
    /\ seen_429 = [c \in Clients |-> FALSE]
    /\ retry_at = [c \in Clients |-> NoTime]
    /\ waited = FALSE

InitSpan ==
    /\ obs_start = NoTime
    /\ obs_count = [c \in Clients |-> 0]
    /\ admitted_in_window = [c \in Clients |-> 0]

InitSliding ==
    /\ request_history = << >>
    /\ last_cleanup = 0
    /\ admitted = [c \in SlidingClients |-> << >>]

InitPair ==
    /\ win_start = [c \in PairClients |-> NoTime]
    /\ win_sent = [c \in PairClients |-> 0]
    /\ win_admitted = [c \in PairClients |-> 0]

\* nothing is suspended, rejected or mirrored yet
InitWatch ==
    /\ in_flight = 0
    /\ sliding_retry_at = [c \in SlidingClients |-> NoTime]
    /\ sliding_waited = FALSE
    /\ plain_history = << >>
    /\ plain_resp = NoResponse
    /\ solo_requests = << >>
    /\ solo_resp = NoResponse

InitLimiters ==
    InitClock /\ InitInstalled /\ InitSpan /\ InitSliding /\ InitPair /\ InitWatch

\* the settings of the test environment (tests/conftest.py), no API request yet
InitApiSettings ==
    /\ rapidapi_proxy_secret = "test_secret_key"
    /\ fastapi_env = "development"
    /\ gate = NoGate

InitApi ==
    /\ InitApiSettings
    /\ InitRegexIdle
    /\ InitSummIdle
    /\ InitHandlersIdle

Init == InitLimiters /\ InitApi

Next ==
    \/ \E c \in Clients, p \in Paths : InstalledRequest(c, p)
    \/ Tick

\* the installed limiter, requests answered one at a time
Spec == Init /\ [][Next]_vars

(***************************************************************************)
(* The installed limiter watched over a span of time: an observer picks    *)
(* the instant a span starts and counts the requests admitted in the       *)
(* window seconds that follow.                                             *)
(***************************************************************************)
InSpan == obs_start # NoTime /\ now - obs_start <= window

SpanHistory(client_ip, path) ==
    LET isAdmitted == resp'.outcome = "admitted"
        fresh == client_ip \notin DOMAIN CleanUp(requests, now)
        add == IF isAdmitted THEN 1 ELSE 0
    IN  /\ obs_count' = IF InSpan
                        THEN [obs_count EXCEPT ![client_ip] = @ + add]
                        ELSE obs_count
        /\ admitted_in_window' =
              IF path \in InstalledExempt THEN admitted_in_window
              ELSE [admitted_in_window EXCEPT
                      ![client_ip] = IF fresh THEN add ELSE @ + add]
        /\ UNCHANGED obs_start

SpanRequest(client_ip, path) ==
    /\ Dispatch(client_ip, path)
    /\ SpanHistory(client_ip, path)
    /\ UNCHANGED <<now, sent_root, seen_429, retry_at, waited, slidingVars, pairVars,
                   watchVars, apiVars>>

StartObserve ==
    /\ obs_start = NoTime
    /\ obs_start' = now
    /\ UNCHANGED <<now, resp, installedVars, obs_count, admitted_in_window, slidingVars,
                   pairVars, watchVars, apiVars>>

NextSpan ==
    \/ \E c \in Clients, p \in Paths : SpanRequest(c, p)
    \/ StartObserve
    \/ Tick

SpecSpan == Init /\ [][NextSpan]_vars

(***************************************************************************)
(* RateLimitMiddleware, the sliding-window limiter of app/middleware.py.   *)
(***************************************************************************)
\* Settings.rate_limit_requests_per_minute (60 unless configured), scaled
requests_per_minute == 2
minute           == 60
cleanup_interval == 300
cleanup_age      == 300

SlidingExempt == {"/", "/health", "/docs", "/redoc", "/openapi.json"}

\* instants the clock can show: around the minute and the cleanup boundaries
SlidingTimePoints ==
    {a * cleanup_interval + b * minute + j :
        a \in 0..MaxWindows, b \in {0, 1}, j \in Offsets}

\* while requests and current_time - requests[0] > age: requests.popleft()
RECURSIVE PopOld(_, _, _)
PopOld(q, current_time, age) ==
    IF q # << >> /\ current_time - Head(q) > age
    THEN PopOld(Tail(q), current_time, age)
    ELSE q

\* TrimMinute with the boundary moved: a timestamp 60 s old is dropped too
TrimMinuteEarly(q, current_time) == PopOld(q, current_time, minute - 1)

\* "Remove requests older than 1 minute"
TrimMinute(q, current_time) == PopOld(q, current_time, minute)

\* CleanupOldEntries dropping what is older than half a minute
CleanupOldEntriesEager(hist, current_time) ==
    LET trimmed == [ip \in DOMAIN hist |-> PopOld(hist[ip], current_time, minute \div 2)]
        kept    == {ip \in DOMAIN hist : trimmed[ip] # << >>}
    IN  [ip \in kept |-> trimmed[ip]]

\* _cleanup_old_entries: old timestamps go, then the IPs left without any
CleanupOldEntries(hist, current_time) ==
    LET trimmed == [ip \in DOMAIN hist |-> PopOld(hist[ip], current_time, cleanup_age)]
        kept    == {ip \in DOMAIN hist : trimmed[ip] # << >>}
    IN  [ip \in kept |-> trimmed[ip]]

\* "Clean up old entries periodically"
CleanupDue(current_time) == current_time - last_cleanup > cleanup_interval

AfterCleanup(current_time) ==
    IF CleanupDue(current_time)
    THEN CleanupOldEntries(request_history, current_time)
    ELSE request_history

\* self.request_history[client_ip] of a defaultdict(deque): a missing key is
\* inserted with an empty deque
Lookup(hist, client_ip) ==
    IF client_ip \in DOMAIN hist THEN hist
    ELSE [ip \in DOMAIN hist \cup {client_ip} |->
            IF ip = client_ip THEN << >> ELSE hist[ip]]

\* the table after _is_rate_limited has trimmed the client's deque
AfterCheck(client_ip, current_time) ==
    LET hist == Lookup(AfterCleanup(current_time), client_ip)
    IN  [hist EXCEPT ![client_ip] = TrimMinute(@, current_time)]

\* IsRateLimited with ">" for ">=": one request more fits into the minute
IsRateLimitedOver(client_ip, current_time) ==
    Len(AfterCheck(client_ip, current_time)[client_ip]) > requests_per_minute

\* _is_rate_limited
IsRateLimited(client_ip, current_time) ==
    Len(AfterCheck(client_ip, current_time)[client_ip]) >= requests_per_minute

\* "Record this request"
Recorded(client_ip, current_time) ==
    [AfterCheck(client_ip, current_time) EXCEPT ![client_ip] = Append(@, current_time)]

Max(a, b) == IF a > b THEN a ELSE b

\* RateLimitMiddleware.dispatch for a request of client_ip to path
SlidingDispatch(client_ip, path) ==
    IF path \in SlidingExempt
    THEN /\ resp' = PassedThrough(client_ip, path)
         /\ UNCHANGED <<request_history, last_cleanup, admitted>>
    ELSE /\ last_cleanup' = IF CleanupDue(now) THEN now ELSE last_cleanup
         /\ IF IsRateLimited(client_ip, now)
            THEN /\ request_history' = AfterCheck(client_ip, now)
                 /\ resp' = RateLimitExceeded(client_ip, path, minute)
                 /\ UNCHANGED admitted
            ELSE /\ request_history' = Recorded(client_ip, now)
                 /\ resp' = WithHeaders(client_ip, path, requests_per_minute,
                        Max(0, requests_per_minute - Len(Recorded(client_ip, now)[client_ip])),
                        now + minute)
                 /\ admitted' = [admitted EXCEPT ![client_ip] = Append(@, now)]

SlidingRequest(client_ip, path) ==
    /\ SlidingDispatch(client_ip, path)
    /\ UNCHANGED <<now, installedVars, spanVars, pairVars, watchVars, apiVars>>

\* the admitted requests that a window ending in the last minute can hold
Recent(times, current_time) ==
    LET young(x) == x >= current_time - 2 * minute
    IN  SelectSeq(times, young)

\* time passes
SlidingTick ==
    /\ \E t \in SlidingTimePoints : t > now /\ now' = t
    /\ admitted' = [c \in SlidingClients |-> Recent(admitted[c], now')]
    /\ UNCHANGED <<resp, installedVars, spanVars, request_history, last_cleanup, pairVars,
                   watchVars, apiVars>>

NextSliding ==
    \/ \E c \in SlidingClients, p \in Paths : SlidingRequest(c, p)
    \/ SlidingTick

SpecSliding == Init /\ [][NextSliding]_vars

\* the admitted requests of client c that arrived in [t - 60, t]
AdmittedIn(c, t) == {i \in DOMAIN admitted[c] : t - minute <= admitted[c][i] /\ admitted[c][i] <= t}

(***************************************************************************)
(* C1: for every client IP and every instant t, at most                    *)
(* requests_per_minute admitted requests of the client arrived in the      *)
(* closed interval [t - 60, t].  The instants are those of the last        *)
(* minute: a request is admitted at the current time only, so a window     *)
(* that ended earlier held all its requests in an earlier state.           *)
(***************************************************************************)
SlidingWindowBound ==
    \A c \in SlidingClients : \A t \in (now - minute)..now :
        Cardinality(AdmittedIn(c, t)) <= requests_per_minute

\* a client is rejected with its window full, after a cleanup run and after
\* requests of another client
SlidingRejection ==
    /\ resp.outcome = "rejected"
    /\ resp.path \notin SlidingExempt
    /\ last_cleanup > 0
    /\ Cardinality(AdmittedIn(resp.client, now)) = requests_per_minute
    /\ \E c \in SlidingClients \ {resp.client} : admitted[c] # << >>

(***************************************************************************)
(* C2 as stated: in any span of window seconds at most limit requests of   *)
(* one client IP are admitted.                                             *)
(***************************************************************************)
AtMostLimitPerSpan == \A c \in Clients : obs_count[c] <= limit

(***************************************************************************)
(* C2, amended: the limiter counts per fixed window.  Between the creation *)
(* of a client's entry and its eviction at most limit requests of the      *)
(* client are admitted and a request is rejected only once limit requests  *)
(* of the window were admitted; a span of window seconds that straddles    *)
(* two windows holds at most 2 * limit admitted requests.                  *)
(***************************************************************************)
FixedWindowBound ==
    /\ \A c \in Clients : admitted_in_window[c] <= limit
    /\ \A c \in Clients : obs_count[c] <= 2 * limit
    /\ resp.outcome = "rejected" => admitted_in_window[resp.client] = limit

\* a span that holds more than limit admitted requests, and a rejection after it
StraddlingSpan ==
    /\ resp.outcome = "rejected"
    /\ obs_count[resp.client] > limit
    /\ admitted_in_window[resp.client] = limit

(***************************************************************************)
(* The API-key gate under every setting of the secret and the environment. *)
(***************************************************************************)
InitAuth ==
    /\ InitLimiters
    /\ rapidapi_proxy_secret \in Secrets
    /\ fastapi_env \in Envs
    /\ gate = NoGate
    /\ InitRegexIdle
    /\ InitSummIdle
    /\ InitHandlersIdle

NextAuth == \E e \in Endpoints, k \in Secrets : ApiRequest(e, k)

SpecAuth == InitAuth /\ [][NextAuth]_vars

(***************************************************************************)
(* C3: when a secret is configured, a request to an /api/v1 endpoint       *)
(* passes the gate if and only if its X-RapidAPI-Proxy-Secret header is    *)
(* present and equal to the secret; every other request is answered 403    *)
(* and the endpoint handler does not run for it.                           *)
(***************************************************************************)
KeyGate ==
    (Truthy(rapidapi_proxy_secret) /\ gate.status # 0) =>
        /\ gate.status = 200 <=> (gate.api_key # None /\ gate.api_key = rapidapi_proxy_secret)
        /\ gate.status # 200 => (gate.status = 403 /\ ~gate.handler_ran)
        /\ gate.status = 200 => gate.handler_ran

\* a request with a wrong key, answered 403, outside development
WrongKeyRefused ==
    /\ Truthy(rapidapi_proxy_secret)
    /\ gate.api_key \notin {None, "", rapidapi_proxy_secret}
    /\ gate.status = 403
    /\ ~IsDevelopment

(***************************************************************************)
(* C4: a client that sends Burst (15) requests to "/" has received a 429   *)
(* on at least one of them.                                                *)
(***************************************************************************)
BurstTriggersLimit == \A c \in Clients : sent_root[c] >= Burst => seen_429[c]

(***************************************************************************)
(* C5: a client rejected at time t with Retry-After r whose next request   *)
(* comes at time t + r or later is admitted on that request.               *)
(***************************************************************************)
RetryAfterHonoured == waited => resp.outcome = "admitted"

(***************************************************************************)
(* The regex tester, one request after the other.                          *)
(***************************************************************************)
InitRegex ==
    /\ InitLimiters
    /\ InitApiSettings
    /\ regex_req \in [pattern : Patterns, text : Texts]
    /\ regex_out = NoRegex
    /\ InitSummIdle
    /\ InitHandlersIdle

NextRegex == RegexTester

SpecRegex == InitRegex /\ [][NextRegex]_vars

(***************************************************************************)
(* C6: for a pattern that compiles and that validate_regex_safety rejects, *)
(* the regex tester answers 400 with the detail "Regex pattern not allowed *)
(* for security reasons" and performs no matching.                         *)
(***************************************************************************)
UnsafePatternIs400 ==
    (/\ regex_out.status # 0
     /\ Compiles(regex_out.pattern)
     /\ ~ValidateRegexSafety(regex_out.pattern)) =>
        /\ regex_out.status = 400
        /\ regex_out.detail = "Regex pattern not allowed for security reasons"
        /\ ~regex_out.searched

\* all the matches of the pattern in the text that is searched
AllMatches == FindAll(regex_out.pattern, SanitizeUserInput(regex_out.text, max_text_length))

(***************************************************************************)
(* C9: the returned matches list has at most 1000 elements, it is a        *)
(* prefix, in order of occurrence, of the full list of matches, and        *)
(* match_count equals the length of the returned list.                     *)
(***************************************************************************)
MatchesArePrefix ==
    regex_out.status = 200 =>
        /\ Len(regex_out.matches) <= 1000
        /\ Len(regex_out.matches) <= Len(AllMatches)
        /\ regex_out.matches = SubSeq(AllMatches, 1, Len(regex_out.matches))
        /\ regex_out.match_count = Len(regex_out.matches)

\* a request with more than 1000 matches is answered
MatchesTruncated ==
    /\ regex_out.status = 200
    /\ Len(AllMatches) > 1000
    /\ Len(regex_out.matches) = 1000

(***************************************************************************)
(* C10: match_count equals the number of matches of the pattern in the     *)
(* searched text, for every input.                                         *)
(***************************************************************************)
MatchCountIsTotal ==
    regex_out.status = 200 => regex_out.match_count = Len(AllMatches)

(***************************************************************************)
(* The summarizer, over every text, sentence_count and state of the        *)
(* stopwords corpus.                                                       *)
(***************************************************************************)
InitSumm ==
    /\ InitLimiters
    /\ InitApiSettings
    /\ InitRegexIdle
    /\ summ_req \in [text : SummTexts, blanks : {0}, sentence_count : 0..MaxCount,
                    stopwords : BOOLEAN]
    /\ summ_out = NoSummary
    /\ InitHandlersIdle

NextSumm == Summarize

SpecSumm == InitSumm /\ [][NextSumm]_vars

(***************************************************************************)
(* C7: for every accepted request, summary_sentence_count is at most the   *)
(* requested sentence_count and at most original_sentence_count, on every  *)
(* return path.                                                            *)
(***************************************************************************)
SummaryCountBounded ==
    summ_out.status = 200 =>
        /\ summ_out.summary_sentence_count <= summ_req.sentence_count
        /\ summ_out.summary_sentence_count <= summ_out.original_sentence_count
        /\ summ_out.original_sentence_count = Len(summ_req.text)

\* the ranked path fills the summary up to sentence_count
RankedSummaryFull ==
    /\ summ_out.status = 200
    /\ summ_out.path = "ranked"
    /\ summ_out.summary_sentence_count = summ_req.sentence_count
    /\ summ_req.sentence_count > 1

(***************************************************************************)
(* C8: whenever the input has more sentences than sentence_count, the      *)
(* summary consists of exactly sentence_count sentences and                *)
(* summary_sentence_count equals sentence_count.                           *)
(***************************************************************************)
SummaryHasRequestedCount ==
    (summ_out.status = 200 /\ Len(summ_req.text) > summ_req.sentence_count) =>
        /\ Len(summ_out.summary) = summ_req.sentence_count
        /\ summ_out.summary_sentence_count = summ_req.sentence_count

(***************************************************************************)
(* The installed limiter with two clients in its table.  The history       *)
(* follows every client's window by the clock alone: a window begins with  *)
(* the client's first counted request and with its first counted request   *)
(* more than window seconds after the window began.                        *)
(***************************************************************************)
\* the paths the limiter passes through, by name
SkippedPaths == {"/health", "/docs", "/redoc", "/openapi.json"}

PairPaths == {"/"} \cup SkippedPaths

WindowOver(client_ip) ==
    win_start[client_ip] = NoTime \/ now - win_start[client_ip] > window

PairHistory(client_ip, path) ==
    LET add == IF resp'.outcome = "admitted" THEN 1 ELSE 0
    IN  IF resp'.outcome = "exempt"
        THEN UNCHANGED pairVars
        ELSE /\ win_start' = [win_start EXCEPT
                                ![client_ip] = IF WindowOver(client_ip) THEN now ELSE @]
             /\ win_sent' = [win_sent EXCEPT
                               ![client_ip] = IF WindowOver(client_ip) THEN 1 ELSE @ + 1]
             /\ win_admitted' = [win_admitted EXCEPT
                                   ![client_ip] = IF WindowOver(client_ip) THEN add ELSE @ + add]

\* the second client asks for "/" only and stays within MaxNeighbour requests
\* per window
NeighbourWithinModel(client_ip, path) ==
    \/ client_ip # Neighbour
    \/ /\ path = "/"
       /\ Counted(client_ip, now)[client_ip].count <= MaxNeighbour

PairRequest(client_ip, path) ==
    /\ NeighbourWithinModel(client_ip, path)
    /\ Dispatch(client_ip, path)
    /\ PairHistory(client_ip, path)
    /\ UNCHANGED <<now, sent_root, seen_429, retry_at, waited, spanVars, slidingVars,
                   watchVars, apiVars>>

NextPair ==
    \/ \E c \in PairClients, p \in PairPaths : PairRequest(c, p)
    \/ Tick

SpecPair == Init /\ [][NextPair]_vars

(***************************************************************************)
(* The image upload, every file of Uploads.                                *)
(***************************************************************************)
InitImage ==
    /\ InitLimiters
    /\ InitApiSettings
    /\ InitRegexIdle
    /\ InitSummIdle
    /\ image_req \in Uploads
    /\ image_out = NoImage
    /\ InitLengthIdle
    /\ InitUrlIdle
    /\ InitNameIdle

NextImage == ImageUpload

SpecImage == InitImage /\ [][NextImage]_vars

\* the media type the upload declares is one of the five image types
DeclaresImage(file) ==
    /\ file.has_type
    /\ NormalizeContentType(file.content_type) \in {<<t>> : t \in allowed_types}

(***************************************************************************)
(* C11: an uploaded image larger than 5 MB with an allowed image content   *)
(* type is rejected with HTTP 413 and is not base64-encoded.               *)
(***************************************************************************)
LargeUploadIs413 ==
    (/\ image_out.status # 0
     /\ DeclaresImage(image_req)
     /\ ~image_req.read_fails
     /\ image_req.size > test_upload_bytes) =>
        /\ image_out.status = 413
        /\ ~image_out.encoded

(***************************************************************************)
(* C12: an upload whose content type is missing or, after dropping         *)
(* parameters and lower-casing, is not one of the five image types is      *)
(* answered HTTP 400, not 500, and its body is neither read nor encoded.   *)
(***************************************************************************)
BadTypeIs400 ==
    (image_out.status # 0 /\ ~DeclaresImage(image_req)) =>
        /\ image_out.status = 400
        /\ ~image_out.read
        /\ ~image_out.encoded

\* a text file is refused before its body is read, whatever file.read would do
BadTypeRefused ==
    /\ image_out.status = 400
    /\ image_req.content_type = <<"TEXT/PLAIN", ";", " ", "charset=utf-8">>
    /\ image_req.read_fails
    /\ ~image_out.read

(***************************************************************************)
(* The summarizer at the limits of its request model.                      *)
(***************************************************************************)
InitSummEdge ==
    /\ InitLimiters
    /\ InitApiSettings
    /\ InitRegexIdle
    /\ summ_req \in [text : EdgeTexts, blanks : EdgeBlanks, sentence_count : EdgeCounts,
                    stopwords : {TRUE}]
    /\ summ_out = NoSummary
    /\ InitHandlersIdle

NextSummEdge == Summarize

SpecSummEdge == InitSummEdge /\ [][NextSummEdge]_vars

(***************************************************************************)
(* C13: a summarize request whose text has fewer than 50 characters, is    *)
(* only white space or has fewer than 10 words, or whose sentence_count is *)
(* outside 1..20, is answered 422 and the handler does not run for it.     *)
(***************************************************************************)
SummaryInputRejected ==
    (/\ summ_out.status # 0
     /\ \/ RawLength(summ_req.text, summ_req.blanks) < 50
        \/ summ_req.text = << >>
        \/ WordCount(summ_req.text) < 10
        \/ summ_req.sentence_count \notin 1..20) =>
        /\ summ_out.status = 422
        /\ summ_out.path = ""
        /\ summ_out.summary = << >>

\* a text long enough in characters but short of ten words is refused by
\* validate_text
FewWordsRejected ==
    /\ summ_out.status = 422
    /\ RawLength(summ_req.text, summ_req.blanks) >= 50
    /\ summ_req.text # << >>
    /\ WordCount(summ_req.text) < 10
    /\ summ_req.sentence_count \in 1..20

(***************************************************************************)
(* The two length checks, every text field at the lengths of FieldLengths. *)
(***************************************************************************)
InitLength ==
    /\ InitLimiters
    /\ InitApiSettings
    /\ InitRegexIdle
    /\ InitSummIdle
    /\ InitImageIdle
    /\ len_req \in [field : TextFields, length : FieldLengths]
    /\ len_out = NoLength
    /\ InitUrlIdle
    /\ InitNameIdle

NextLength == LengthRequest

SpecLength == InitLength /\ [][NextLength]_vars

(***************************************************************************)
(* C14: a request whose text field exceeds its declared maximum            *)
(* (markdown_text 10000, QR data 2000, regex text 50000, regex pattern     *)
(* 1000, summarize text 100000) is answered 422, so validate_text_length   *)
(* never raises for a request that reaches a handler.                      *)
(***************************************************************************)
LengthLimitBeforeHandler ==
    len_out.status # 0 =>
        /\ len_req.length > DeclaredMax(len_req.field) =>
               (len_out.status = 422 /\ ~len_out.handler_ran)
        /\ len_out.handler_ran => ~len_out.too_long
        /\ DeclaredMax(len_req.field) =
               CASE len_req.field = "MarkdownRequest.markdown_text" -> 10000
                 [] len_req.field = "QrCodeRequest.data" -> 2000
                 [] len_req.field = "RegexRequest.text" -> 50000
                 [] len_req.field = "RegexRequest.pattern" -> 1000
                 [] len_req.field = "TextSummarizeRequest.text" -> 100000

\* a value one character over the maximum is refused by the request model
OverlongRefused ==
    /\ len_out.status = 422
    /\ len_req.field = "MarkdownRequest.markdown_text"
    /\ len_req.length = 10001

(***************************************************************************)
(* The word counter, every url of Urls under both behaviours of HttpUrl.   *)
(***************************************************************************)
InitUrl ==
    /\ InitLimiters
    /\ InitApiSettings
    /\ InitRegexIdle
    /\ InitSummIdle
    /\ InitImageIdle
    /\ InitLengthIdle
    /\ strict_host \in BOOLEAN
    /\ url_req \in Urls
    /\ url_out = NoWordCount
    /\ InitNameIdle

NextUrl == WordCounter

SpecUrl == InitUrl /\ [][NextUrl]_vars

(***************************************************************************)
(* C15 as stated: for every url for which validate_url_safety returns      *)
(* false the word counter answers 400 and issues no outbound request.      *)
(***************************************************************************)
UnsafeUrlIs400 ==
    (url_out.status # 0 /\ ~ValidateUrlSafety(url_req)) =>
        /\ url_out.status = 400
        /\ ~url_out.fetched

(***************************************************************************)
(* C15, amended: for every url for which validate_url_safety returns false *)
(* no outbound request is issued; the answer is 400 when the url passes    *)
(* the request model (HttpUrl) and 422, without the handler running, when  *)
(* it does not (a scheme other than http and https, no hostname).          *)
(***************************************************************************)
UnsafeUrlNeverFetched ==
    (url_out.status # 0 /\ ~ValidateUrlSafety(url_req)) =>
        /\ ~url_out.fetched
        /\ HttpUrlValid(url_req) => (url_out.status = 400 /\ url_out.handler_ran)
        /\ ~HttpUrlValid(url_req) => (url_out.status = 422 /\ ~url_out.handler_ran)
        /\ (url_req.scheme \notin {"http", "https"} \/ url_req.host = << >>) =>
               url_out.status = 422

\* a .local host is refused by the handler without a request to it
UnsafeUrlRefused ==
    /\ url_out.status = 400
    /\ url_out.handler_ran
    /\ ~url_out.fetched
    /\ EndsWith(url_req.host, DotLocal)
    /\ url_req.fetch = "ok"

(***************************************************************************)
(* C16: with no secret configured a request passes the gate only when the  *)
(* environment is development, and then whatever its header; in every      *)
(* other environment it is answered 500 and no handler runs.               *)
(***************************************************************************)
NoSecretGate ==
    (~Truthy(rapidapi_proxy_secret) /\ gate.status # 0) =>
        IF Lower(fastapi_env) = "development"
        THEN gate.status = 200 /\ gate.handler_ran
        ELSE gate.status = 500 /\ ~gate.handler_ran

\* outside development a request with a key is answered 500 when no secret is
\* configured
NoSecretRefused ==
    /\ rapidapi_proxy_secret = None
    /\ fastapi_env = "production"
    /\ gate.api_key = "test_secret_key"
    /\ gate.status = 500
    /\ ~gate.handler_ran

(***************************************************************************)
(* C17: a request to /health, /docs, /redoc or /openapi.json is never      *)
(* rejected by the installed limiter, however many requests the client     *)
(* has made, and leaves the table of the limiter unchanged.                *)
(***************************************************************************)
ExemptPathsUntouched ==
    [][resp'.path \in SkippedPaths =>
          /\ requests' = requests
          /\ resp'.outcome = "exempt"
          /\ resp'.status # 429]_vars

\* a client over its limit is served /docs while both clients are in the table
ExemptWhileBlocked ==
    /\ resp.outcome = "exempt"
    /\ resp.path = "/docs"
    /\ DOMAIN requests = PairClients
    /\ requests[resp.client].count > limit

(***************************************************************************)
(* C18: between the creation of a client's entry and its eviction (the     *)
(* first request by anyone later than window seconds after the creation)   *)
(* exactly the first limit requests of the client are admitted and every   *)
(* later one is rejected.                                                  *)
(***************************************************************************)
PerWindowAdmission ==
    /\ \A c \in DOMAIN requests :
          /\ requests[c].timestamp = win_start[c]
          /\ requests[c].count = win_sent[c]
    /\ \A c \in PairClients : win_admitted[c] = Min(win_sent[c], limit)
    /\ resp.outcome = "admitted" => win_sent[resp.client] <= limit
    /\ resp.outcome = "rejected" => win_sent[resp.client] > limit

\* a second window of the client, begun after the first one ran out, is
\* used up as well
SecondWindowUsedUp ==
    /\ resp.outcome = "rejected"
    /\ win_start[resp.client] > window
    /\ win_sent[resp.client] = limit + 1
    /\ win_admitted[resp.client] = limit
    /\ Neighbour \in DOMAIN requests

(***************************************************************************)
(* C19: every rejection carries a Retry-After value r with 0 <= r <=       *)
(* window, equal to the window start plus window minus the current time.   *)
(***************************************************************************)
RetryAfterInRange ==
    [][(resp'.outcome = "rejected" /\ requests' # requests) =>
          /\ resp'.retry_after = win_start'[resp'.client] + window - now
          /\ resp'.retry_after >= 0
          /\ resp'.retry_after <= window]_vars

\* a rejection at the last second of the window
RejectedAtWindowEnd ==
    /\ resp.outcome = "rejected"
    /\ resp.retry_after = 0
    /\ now = win_start[resp.client] + window

(***************************************************************************)
(* C20: when a client's requests are answered one at a time inside one     *)
(* window, the k-th admitted response carries X-RateLimit-Limit = limit    *)
(* and X-RateLimit-Remaining = limit - k, and every response of the window *)
(* carries the same X-RateLimit-Reset = window start + window.             *)
(***************************************************************************)
EveryResponseCarriesReset ==
    /\ resp.outcome = "admitted" =>
          /\ resp.rl_limit = limit
          /\ resp.remaining = limit - win_admitted[resp.client]
    /\ resp.outcome \in {"admitted", "rejected"} =>
          /\ "X-RateLimit-Reset" \in resp.headers
          /\ resp.reset = win_start[resp.client] + window

\* what does hold: the headers of the admitted responses of a window
AdmittedHeaders ==
    resp.outcome = "admitted" =>
        /\ resp.headers = {"X-RateLimit-Limit", "X-RateLimit-Remaining", "X-RateLimit-Reset"}
        /\ resp.rl_limit = limit
        /\ resp.remaining = limit - win_admitted[resp.client]
        /\ resp.remaining >= 0
        /\ resp.reset = win_start[resp.client] + window

(***************************************************************************)
(* The installed limiter with overlapping requests.  dispatch runs in two  *)
(* steps: up to "await call_next" (sweep, count, check) and from the       *)
(* return of call_next (the three headers, read from the table as it is    *)
(* then).  The requests of the first client are suspended in between; the  *)
(* second client's are answered at once.                                   *)
(***************************************************************************)
Watched == "10.0.0.1"

OverlapPaths == {"/", "/health"}

\* self.requests[client_ip] raises KeyError: the request is answered 500
KeyErrorResponse(client_ip, path) ==
    [NoResponse EXCEPT !.client = client_ip, !.path = path, !.outcome = "crashed",
                       !.status = 500]

\* dispatch up to the call of call_next; no answer yet for a suspended request
BeginDispatch(client_ip, path) ==
    /\ WithinModel(client_ip, path)
    /\ NeighbourWithinModel(client_ip, path)
    /\ requests' = InstalledTable(client_ip, path)
    /\ IF path \in InstalledExempt
       THEN resp' = PassedThrough(client_ip, path) /\ UNCHANGED in_flight
       ELSE IF OverLimit(requests'[client_ip])
       THEN /\ resp' = RateLimitExceeded(client_ip, path,
                                         RetryAfter(requests'[client_ip], now))
            /\ UNCHANGED in_flight
       ELSE IF client_ip = Watched
       THEN /\ in_flight < MaxInFlight
            /\ in_flight' = in_flight + 1
            /\ resp' = NoResponse
       ELSE /\ resp' = InstalledAnswer(client_ip, path)
            /\ UNCHANGED in_flight

BeginRequest(client_ip, path) ==
    /\ BeginDispatch(client_ip, path)
    /\ UNCHANGED <<now, sent_root, seen_429, retry_at, waited, spanVars, slidingVars,
                   pairVars, slidingRetryVars, plainVars, soloVars, apiVars>>

\* call_next returns to a suspended request: "Add rate limit headers to response"
ResumeDispatch ==
    /\ in_flight > 0
    /\ in_flight' = in_flight - 1
    /\ resp' = IF Watched \notin DOMAIN requests
               THEN KeyErrorResponse(Watched, "/")
               ELSE WithHeaders(Watched, "/", limit, limit - requests[Watched].count,
                                requests[Watched].timestamp + window)

ResumeRequest ==
    /\ ResumeDispatch
    /\ UNCHANGED <<now, installedVars, spanVars, slidingVars, pairVars, slidingRetryVars,
                   plainVars, soloVars, apiVars>>

NextOverlap ==
    \/ \E c \in PairClients, p \in OverlapPaths : BeginRequest(c, p)
    \/ ResumeRequest
    \/ Tick

SpecOverlap == Init /\ [][NextOverlap]_vars

(***************************************************************************)
(* C21: whatever requests are handled while an admitted request is         *)
(* suspended in call_next, when it resumes the client's entry is still in  *)
(* the table and the X-RateLimit-Remaining it emits is >= 0.               *)
(***************************************************************************)
ResumeFindsEntry ==
    /\ resp.outcome # "crashed"
    /\ resp.outcome = "admitted" => resp.remaining >= 0

\* the second way the claim fails: a resumed request reports fewer than zero
\* requests remaining
NegativeRemaining == resp.outcome = "admitted" /\ resp.remaining < 0

(***************************************************************************)
(* The sliding-window limiter and the Retry-After it sends, one client.    *)
(***************************************************************************)
SlidingRetryHistory(client_ip, path) ==
    /\ sliding_waited' = (/\ path \notin SlidingExempt
                          /\ sliding_retry_at[client_ip] # NoTime
                          /\ now >= sliding_retry_at[client_ip])
    /\ sliding_retry_at' =
          CASE resp'.outcome = "rejected" ->
                 [sliding_retry_at EXCEPT ![client_ip] = now + resp'.retry_after]
            [] resp'.outcome = "admitted" ->
                 [sliding_retry_at EXCEPT ![client_ip] = NoTime]
            [] OTHER -> sliding_retry_at

SlidingRetryRequest(client_ip, path) ==
    /\ SlidingDispatch(client_ip, path)
    /\ SlidingRetryHistory(client_ip, path)
    /\ UNCHANGED <<now, installedVars, spanVars, pairVars, overlapVars, plainVars, soloVars,
                   apiVars>>

NextSlidingRetry ==
    \/ \E p \in Paths : SlidingRetryRequest(Watched, p)
    \/ SlidingTick

SpecSlidingRetry == Init /\ [][NextSlidingRetry]_vars

(***************************************************************************)
(* C22: a 429 from RateLimitMiddleware always carries Retry-After: 60, and *)
(* a client rejected at time t that sends no request until t + 60 or later *)
(* is admitted on that next request.                                       *)
(***************************************************************************)
SlidingRetryHonoured ==
    /\ resp.outcome = "rejected" => (resp.retry_after = 60 /\ "Retry-After" \in resp.headers)
    /\ sliding_waited => resp.outcome = "admitted"

(***************************************************************************)
(* C23: each client's deque holds at most requests_per_minute timestamps   *)
(* in non-decreasing order, and a request answered 429 appends nothing to  *)
(* any deque.                                                              *)
(***************************************************************************)
IsSuffixOf(q, r) == Len(q) <= Len(r) /\ q = SubSeq(r, Len(r) - Len(q) + 1, Len(r))

DequeOf(hist, c) == IF c \in DOMAIN hist THEN hist[c] ELSE << >>

BoundedHistory ==
    /\ [](\A c \in DOMAIN request_history :
             /\ Len(request_history[c]) <= requests_per_minute
             /\ \A i \in 1..(Len(request_history[c]) - 1) :
                   request_history[c][i] <= request_history[c][i + 1])
    /\ [][resp'.outcome = "rejected" =>
             \A c \in SlidingClients :
                 IsSuffixOf(DequeOf(request_history', c), DequeOf(request_history, c))]_vars

\* a client is answered 429 twice in a row and its full deque stays as it was
RejectedTwice ==
    /\ resp.outcome = "rejected"
    /\ Len(request_history[resp.client]) = requests_per_minute
    /\ request_history[resp.client][1] = now
    /\ \E c \in SlidingClients \ {resp.client} : c \in DOMAIN request_history

(***************************************************************************)
(* The sliding-window limiter side by side with the same limiter with      *)
(* cleanup disabled: both are sent the same requests.                      *)
(***************************************************************************)
\* the table of the limiter without cleanup after _is_rate_limited
PlainCheck(client_ip, current_time) ==
    [Lookup(plain_history, client_ip) EXCEPT ![client_ip] = TrimMinute(@, current_time)]

PlainDispatch(client_ip, path) ==
    IF path \in SlidingExempt
    THEN /\ plain_resp' = PassedThrough(client_ip, path)
         /\ UNCHANGED plain_history
    ELSE IF Len(PlainCheck(client_ip, now)[client_ip]) >= requests_per_minute
    THEN /\ plain_history' = PlainCheck(client_ip, now)
         /\ plain_resp' = RateLimitExceeded(client_ip, path, minute)
    ELSE /\ plain_history' = [PlainCheck(client_ip, now) EXCEPT
                                ![client_ip] = Append(@, now)]
         /\ plain_resp' = WithHeaders(client_ip, path, requests_per_minute,
                Max(0, requests_per_minute - Len(plain_history'[client_ip])),
                now + minute)

SlidingPlainRequest(client_ip, path) ==
    /\ SlidingDispatch(client_ip, path)
    /\ PlainDispatch(client_ip, path)
    /\ UNCHANGED <<now, installedVars, spanVars, pairVars, overlapVars, slidingRetryVars,
                   soloVars, apiVars>>

NextSlidingPlain ==
    \/ \E c \in SlidingClients, p \in Paths : SlidingPlainRequest(c, p)
    \/ SlidingTick

SpecSlidingPlain == Init /\ [][NextSlidingPlain]_vars

\* the timestamps of a deque
StampsOf(hist, c) == {DequeOf(hist, c)[i] : i \in 1..Len(DequeOf(hist, c))}

NoLockOut ==
    [][requests' # requests =>
          /\ resp'.outcome = "rejected" =>
                /\ resp'.client \in DOMAIN requests
                /\ requests'[resp'.client].timestamp = requests[resp'.client].timestamp
                /\ requests'[resp'.client].count = requests[resp'.client].count + 1
          /\ (/\ resp'.client \in DOMAIN requests
              /\ now - requests[resp'.client].timestamp > window) =>
                /\ resp'.outcome = "admitted"
                /\ requests'[resp'.client] = [count |-> 1, timestamp |-> now]]_vars

\* a client that was rejected comes back after its window and is admitted
\* into a fresh one
AdmittedAfterBlock ==
    /\ waited
    /\ resp.outcome = "admitted"
    /\ requests[resp.client] = [count |-> 1, timestamp |-> now]
    /\ now > window

(***************************************************************************)
(* The installed limiter side by side with a limiter that is sent the      *)
(* requests of the first client alone, at the same instants.               *)
(***************************************************************************)
\* the table of the limiter alone after a request of the first client
SoloCounted(current_time) ==
    CountRequest(CleanUp(solo_requests, current_time), Watched, current_time)

SoloBegin(client_ip, path) ==
    IF client_ip # Watched
    THEN UNCHANGED soloVars
    ELSE IF path \in InstalledExempt
    THEN /\ solo_resp' = PassedThrough(client_ip, path)
         /\ UNCHANGED solo_requests
    ELSE /\ solo_requests' = SoloCounted(now)
         /\ solo_resp' = IF OverLimit(solo_requests'[Watched])
                         THEN RateLimitExceeded(client_ip, path,
                                                RetryAfter(solo_requests'[Watched], now))
                         ELSE NoResponse

SoloResume ==
    /\ solo_resp' = IF Watched \notin DOMAIN solo_requests
                    THEN KeyErrorResponse(Watched, "/")
                    ELSE WithHeaders(Watched, "/", limit,
                                     limit - solo_requests[Watched].count,
                                     solo_requests[Watched].timestamp + window)
    /\ UNCHANGED solo_requests

SharedBegin(client_ip, path) ==
    /\ BeginDispatch(client_ip, path)
    /\ SoloBegin(client_ip, path)
    /\ UNCHANGED <<now, sent_root, seen_429, retry_at, waited, spanVars, slidingVars,
                   pairVars, slidingRetryVars, plainVars, apiVars>>

SharedResume ==
    /\ ResumeDispatch
    /\ SoloResume
    /\ UNCHANGED <<now, installedVars, spanVars, slidingVars, pairVars, slidingRetryVars,
                   plainVars, apiVars>>

NextShared ==
    \/ \E c \in PairClients, p \in OverlapPaths : SharedBegin(c, p)
    \/ SharedResume
    \/ Tick

SpecShared == Init /\ [][NextShared]_vars

(***************************************************************************)
(* C26: the outcome and the rate-limit headers of a client's requests are  *)
(* those the client gets when no other client sends anything: the answer   *)
(* to the first client equals the answer of the limiter that saw its       *)
(* requests alone.                                                         *)
(***************************************************************************)
OwnRequestsDecide == resp.client = Watched => solo_resp = resp

\* apart from the request that finds its entry gone, the two answers agree
AgreeUnlessEntryGone ==
    (resp.client = Watched /\ resp.outcome # "crashed") => solo_resp = resp

(***************************************************************************)
(* A request to a route of the router as the application stack handles it: *)
(* RateLimiterMiddleware wraps the router, whose dependency                *)
(* verify_rapidapi_secret runs inside call_next.                           *)
(***************************************************************************)
GatedEndpoints == {"/api/v1/qr-code", "/api/v1/summarize"}

\* a request the dependency never saw
Unchecked(endpoint, api_key) ==
    [endpoint |-> endpoint, api_key |-> api_key, status |-> 0, handler_ran |-> FALSE]

\* the dependency's verdict on a request that reached the router
Checked(endpoint, api_key) ==
    [endpoint |-> endpoint, api_key |-> api_key,
     status |-> VerifyRapidapiSecret(api_key),
     handler_ran |-> VerifyRapidapiSecret(api_key) = 200]

\* GatedDispatch with the two gates swapped: the key is checked first and a
\* request refused for its key never reaches the limiter
GatedDispatchKeyFirst(client_ip, endpoint, api_key) ==
    IF VerifyRapidapiSecret(api_key) # 200
    THEN /\ gate' = Checked(endpoint, api_key)
         /\ resp' = [PassedThrough(client_ip, endpoint) EXCEPT
                        !.status = VerifyRapidapiSecret(api_key)]
         /\ UNCHANGED requests
    ELSE /\ WithinModel(client_ip, endpoint)
         /\ requests' = InstalledTable(client_ip, endpoint)
         /\ gate' = Checked(endpoint, api_key)
         /\ resp' = InstalledAnswer(client_ip, endpoint)

\* dispatch of RateLimiterMiddleware around the router: the request is
\* counted, and only a request that is not over the limit goes on to
\* call_next, where the dependency decides the status of the response
GatedDispatch(client_ip, endpoint, api_key) ==
    /\ WithinModel(client_ip, endpoint)
    /\ requests' = InstalledTable(client_ip, endpoint)
    /\ IF InstalledAnswer(client_ip, endpoint).outcome = "rejected"
       THEN /\ gate' = Unchecked(endpoint, api_key)
            /\ resp' = InstalledAnswer(client_ip, endpoint)
       ELSE /\ gate' = Checked(endpoint, api_key)
            /\ resp' = [InstalledAnswer(client_ip, endpoint) EXCEPT
                           !.status = VerifyRapidapiSecret(api_key)]

GatedRequest(client_ip, endpoint, api_key) ==
    /\ GatedDispatch(client_ip, endpoint, api_key)
    /\ UNCHANGED <<now, sent_root, seen_429, retry_at, waited, spanVars, slidingVars,
                   pairVars, watchVars, rapidapi_proxy_secret, fastapi_env, regexVars,
                   summVars, handlerVars>>

NextGated ==
    \/ \E c \in Clients, e \in GatedEndpoints, k \in Secrets : GatedRequest(c, e, k)
    \/ Tick

SpecGated == Init /\ [][NextGated]_vars

\* the client's count once one more request has been counted
CountAfter(client_ip) ==
    IF client_ip \in DOMAIN requests /\ ~(now - requests[client_ip].timestamp > window)
    THEN requests[client_ip].count + 1
    ELSE 1

(***************************************************************************)
(* C27: the limiter runs before the API-key check: every request to a      *)
(* route of the router is counted against its client whatever its key, a   *)
(* request answered 403 has consumed quota, and a request of a client over *)
(* its limit is rejected without the key check being evaluated.            *)
(***************************************************************************)
LimiterBeforeKey ==
    [][gate' # gate =>
          /\ resp'.client \in DOMAIN requests'
          /\ requests'[resp'.client].count = CountAfter(resp'.client)
          /\ resp'.outcome \in {"admitted", "rejected"}
          /\ resp'.outcome = "rejected" <=> CountAfter(resp'.client) > limit
          /\ resp'.outcome = "rejected" =>
                (resp'.status = 429 /\ gate'.status = 0 /\ ~gate'.handler_ran)
          /\ resp'.outcome = "admitted" =>
                /\ gate'.status = VerifyRapidapiSecret(gate'.api_key)
                /\ resp'.status = gate'.status
                /\ resp'.remaining = limit - CountAfter(resp'.client)]_vars

\* a request with a wrong key is answered 403 and has used up the last
\* request of the client's quota
ForbiddenUsedQuota ==
    /\ resp.status = 403
    /\ gate.status = 403
    /\ resp.remaining = 0
    /\ requests[resp.client].count = limit

(***************************************************************************)
(* The summarizer on texts of RankLen sentences, of which one or two are   *)
(* asked for.                                                              *)
(***************************************************************************)
\* a sentence with one scored word
OneWordSentence == <<"the", "is", "the", "code", "is">>

\* the sentences ranked: three scored words, two, none, one
RankPool ==
    {<<"Python", "code", "python", "is", "the">>,
     <<"the", "data", "is", "the", "code">>,
     <<"is", "the", "is", "the", "is">>,
     OneWordSentence}

RankTexts == [1..RankLen -> RankPool]

RankCounts == {1, 2}

InitRank ==
    /\ InitLimiters
    /\ InitApiSettings
    /\ InitRegexIdle
    /\ summ_req \in [text : RankTexts, blanks : {0}, sentence_count : RankCounts,
                    stopwords : BOOLEAN]
    /\ summ_out = NoSummary
    /\ InitHandlersIdle

NextRank == Summarize

SpecRank == InitRank /\ [][NextRank]_vars

\* the stop words of the request
StopWordsOf(req) == IF req.stopwords THEN StopWords ELSE {}

\* max(word_frequencies.values())
MaxFreq(text, stop_words) ==
    CHOOSE m \in {Frequency(text, w) : w \in ScoredWords(text, stop_words)} :
        \A w \in ScoredWords(text, stop_words) : Frequency(text, w) <= m

\* the mean of the normalised frequencies of the scored words of sentence j
\* is greater than that of sentence i: (sum_j / max_freq) / count_j >
\* (sum_i / max_freq) / count_i, on integers
MeanAbove(text, stop_words, j, i) ==
    HitSum(text, stop_words, j) * HitCount(text, stop_words, i) * MaxFreq(text, stop_words)
        > HitSum(text, stop_words, i) * HitCount(text, stop_words, j)
              * MaxFreq(text, stop_words)

(***************************************************************************)
(* C28: on the ranked path the summary is made of scored sentences chosen  *)
(* so that no scored sentence left out has a strictly greater mean of      *)
(* normalised word frequencies than a chosen one; they stand in their      *)
(* original order and are joined by ". ".                                  *)
(***************************************************************************)
RankedSummaryIsTop ==
    LET scored == ScoredSentences(summ_req.text, StopWordsOf(summ_req))
        above  == {p \in scored \X scored :
                      MeanAbove(summ_req.text, StopWordsOf(summ_req), p[1], p[2])}
    IN  (summ_out.status = 200 /\ summ_out.path = "ranked") =>
            /\ \E chosen \in SUBSET scored :
                  /\ summ_out.summary = Pick(summ_req.text, chosen)
                  /\ \A i \in chosen : \A j \in scored \ chosen : <<j, i>> \notin above
            /\ summ_out.rendered = JoinSentences(summ_out.summary)
            /\ Len(summ_out.summary) > 1 =>
                  Cardinality({k \in 1..Len(summ_out.rendered) :
                                  summ_out.rendered[k] = ". "})
                      = Len(summ_out.summary) - 1

\* the sentence with the greatest mean is chosen, not the one with the
\* greatest sum
BestMeanChosen ==
    /\ summ_out.status = 200
    /\ summ_out.path = "ranked"
    /\ summ_req.sentence_count = 1
    /\ summ_out.summary = <<OneWordSentence>>
    /\ \E j \in 1..Len(summ_req.text) :
          /\ summ_req.text[j] # OneWordSentence
          /\ HitSum(summ_req.text, StopWordsOf(summ_req), j) > MaxFreq(summ_req.text, StopWordsOf(summ_req))

(***************************************************************************)
(* sanitize_filename (app/utils.py), called by the image upload handler.   *)
(* A file name is the sequence of its characters.                          *)
(***************************************************************************)
max_name_length  == 255
kept_name_length == 250

\* the characters replaced by "_": [<>:"/\|?*]
DangerousChars == {"<", ">", ":", "\"", "/", "\\", "|", "?", "*"}

\* the characters short file names are made of
NameChars == {"a", ".", "/", "\\", ":"}

\* the extensions of the long names: none, a lone dot, .png, .jpeg and one
\* longer than a whole name may be
Extensions ==
    {<< >>, <<".">>, <<".", "p", "n", "g">>, <<".", "j", "p", "e", "g">>,
     <<".">> \o Repeat("c", max_name_length + 5)}

\* the lengths of long names before the extension, around both limits
LongLengths == {kept_name_length, max_name_length - 3, max_name_length + 1, 300}

\* directories sent in front of a name
Directories == {<< >>, <<"d", "/">>, <<"C", ":", "\\">>}

Filenames ==
    SeqsUpTo(NameChars, MaxNameLen)
        \cup {d \o Repeat("b", n) \o e : d \in Directories, n \in LongLengths, e \in Extensions}

\* the position of the last ch in q, 0 if there is none
LastIndexOf(q, ch) ==
    LET at == {k \in 1..Len(q) : q[k] = ch}
    IN  IF at = {} THEN 0 ELSE CHOOSE k \in at : \A m \in at : m <= k

\* q.split(ch)[-1]
AfterLast(q, ch) == SubSeq(q, LastIndexOf(q, ch) + 1, Len(q))

\* re.sub(r'[<>:"/\\|?*]', '_', filename)
ReplaceDangerous(q) == [k \in 1..Len(q) |-> IF q[k] \in DangerousChars THEN "_" ELSE q[k]]

\* q[:n]
Prefix(q, n) == SubSeq(q, 1, Min(n, Len(q)))

\* "Limit length": the name before the last dot is cut to 250 characters and
\* the extension is put back whole
LimitLength(q) ==
    IF Len(q) > max_name_length
    THEN LET dot  == LastIndexOf(q, ".")
             name == IF dot = 0 THEN q ELSE SubSeq(q, 1, dot - 1)
             ext  == IF dot = 0 THEN << >> ELSE SubSeq(q, dot + 1, Len(q))
         IN  Prefix(name, kept_name_length)
                 \o (IF ext # << >> THEN <<".">> \o ext ELSE << >>)
    ELSE q

Unknown == <<"u", "n", "k", "n", "o", "w", "n">>

\* sanitize_filename
SanitizeFilename(filename) ==
    IF filename = << >>
    THEN Unknown
    ELSE LET cleaned == LimitLength(ReplaceDangerous(AfterLast(AfterLast(filename, "/"), "\\")))
         IN  IF cleaned = << >> THEN Unknown ELSE cleaned

\* the handler asks for the safe name of the upload
Sanitize ==
    /\ ~name_out.called
    /\ name_out' = [called |-> TRUE, result |-> SanitizeFilename(name_req)]
    /\ UNCHANGED <<limiterVars, authVars, regexVars, summVars, imageVars, lengthVars,
                   urlVars, name_req>>

InitName ==
    /\ InitLimiters
    /\ InitApiSettings
    /\ InitRegexIdle
    /\ InitSummIdle
    /\ InitImageIdle
    /\ InitLengthIdle
    /\ InitUrlIdle
    /\ name_req \in Filenames
    /\ name_out = NoName

NextName == Sanitize

SpecName == InitName /\ [][NextName]_vars

(***************************************************************************)
(* C29: for every file name the result of sanitize_filename is not empty,  *)
(* holds none of the characters / \ < > : " | ? * and is at most 255       *)
(* characters long.                                                        *)
(***************************************************************************)
SanitizedNameSafe ==
    name_out.called =>
        /\ name_out.result # << >>
        /\ \A k \in 1..Len(name_out.result) : name_out.result[k] \notin DangerousChars
        /\ Len(name_out.result) <= 255

\* the first two parts alone: the result is not empty and holds no
\* dangerous character
SanitizedNameClean ==
    name_out.called =>
        /\ name_out.result # << >>
        /\ \A k \in 1..Len(name_out.result) : name_out.result[k] \notin DangerousChars

====
